---- MODULE Spec2Model ----
(***************************************************************************)
(* Camera navigation controller of the 3D image viewer (CameraRig).        *)
(*                                                                         *)
(* Two variants of the rig exist in the repository:                        *)
(*   "raycast" : src/unnamed/part_000  (zoom toward cursor, focusOn handle) *)
(*   "simple"  : src/src/App.js        (zoom along z, focusTarget prop)     *)
(*                                                                         *)
(* Numbers.  JavaScript numbers are modelled as exact decimals in fixed     *)
(* point.  One world unit is Unit fine units; every value written to the    *)
(* navigation target is a multiple of Cent (0.01 world units), and the      *)
(* camera position, which is multiplied by 0.1 once per frame, is kept in   *)
(* fine units so that MaxFrames integration steps are exact.  The value NaN *)
(* and the two infinities are distinguished values outside that range.      *)
(*                                                                         *)
(* Lifecycle.  The listener effect of the rig is set up when it mounts and  *)
(* cleaned up when it unmounts; the refs and the handle in cameraControl    *)
(* outlive a cleanup, as they do when React runs the effects again.         *)
(***************************************************************************)
EXTENDS Integers, Sequences, FiniteSets, TLC

\* ---------------------------------------------------------------- bounds
MaxFrames == 3
MaxSteps == 4
DeepSteps == 5

\* ------------------------------------------------------- number encoding
RECURSIVE Pow10(_)
Pow10(n) == IF n = 0 THEN 1 ELSE 10 * Pow10(n - 1)

Cent == Pow10(MaxFrames)
Unit == 100 * Cent

NaN == -2000000001
PosInf == 2000000002
NegInf == -2000000002

IsFinite(a) == a \notin {NaN, PosInf, NegInf}

\* a + b and a - b on finite-or-NaN numbers
Add(a, b) == IF a = NaN \/ b = NaN THEN NaN ELSE a + b
Sub(a, b) == IF a = NaN \/ b = NaN THEN NaN ELSE a - b

\* round(a / b) for b > 0, halves rounded up
RoundDiv(a, b) == (2 * a + b) \div (2 * b)

RECURSIVE SqrtSearch(_, _, _)
SqrtSearch(n, lo, hi) ==
    IF lo >= hi THEN lo
    ELSE LET mid == (lo + hi + 1) \div 2
         IN  IF mid * mid <= n THEN SqrtSearch(n, mid, hi)
                               ELSE SqrtSearch(n, lo, mid - 1)

\* floor of the square root
ISqrt(n) == SqrtSearch(n, 0, 46340)

Mul(a, k) == IF a = NaN THEN NaN ELSE a * k

\* a / b of two finite numbers, in thousandths; b = 0 gives NaN or an infinity
Quot(a, b) ==
    IF b = 0
    THEN (IF a = 0 THEN NaN ELSE IF a > 0 THEN PosInf ELSE NegInf)
    ELSE RoundDiv(a * 1000, b)

\* v.normalize(): v / (v.length() || 1); v in any unit with components small
\* enough to square, result in hundredths
Normalize(v) ==
    IF \E i \in 1..3 : v[i] = NaN THEN <<NaN, NaN, NaN>>
    ELSE LET len == ISqrt(v[1] * v[1] + v[2] * v[2] + v[3] * v[3])
         IN  IF len = 0 THEN <<0, 0, 0>>
             ELSE [i \in 1..3 |-> RoundDiv(100 * v[i], len)]

\* ------------------------------------------------------ program constants
PanGain == 9             \* 0.09 per pixel, in hundredths
WheelPanGain == 6        \* 0.06 per wheel unit, in hundredths
SimpleZoomGain == 5      \* 0.05 per wheel unit, in hundredths
ZoomGain == 5            \* 0.5 per wheel unit, in tenths
RayDistance == 10
DefaultZ == 10
TanHalfFov == 7673       \* tan(75 deg / 2), in ten-thousandths

FocusOffset(v) == IF v = "raycast" THEN 5 ELSE 10

\* ------------------------------------------------------------ input sets
Variants == {"raycast", "simple"}
Keys == {"Control", "Shift"}
Pointers == {<<400, 300>>, <<410, 295>>, <<800, 300>>}
DeltaYs == {-100, -20, 20}
Rects == { [left |-> 0, top |-> 0, width |-> 800, height |-> 600],
           [left |-> 0, top |-> 0, width |-> 0,   height |-> 600],
           [left |-> 0, top |-> 0, width |-> 800, height |-> 0] }
ImagePositions == {<<-57, 0, -2>>, <<19, -16, 3>>}
NoFocus == <<>>
NormalRect == [left |-> 0, top |-> 0, width |-> 800, height |-> 600]
NoInput == [op |-> "init", key |-> "", p |-> <<0, 0>>, deltaY |-> 0,
            rect |-> NormalRect, pos |-> <<0, 0, 0>>]

\* the six window events the rig listens to
EventTypes == {"keydown", "keyup", "wheel", "mousedown", "mousemove", "mouseup"}
NoListeners == [t \in EventTypes |-> 0]

\* window.addEventListener for the six handlers of one effect run
Setup(l) == [t \in EventTypes |-> l[t] + 1]

\* the wheel listener not removed
Cleanup_keepsWheel(l) ==
    [t \in EventTypes |-> IF l[t] > 0 /\ t # "wheel" THEN l[t] - 1 ELSE l[t]]

\* window.removeEventListener for the same six handlers
Cleanup(l) == [t \in EventTypes |-> IF l[t] > 0 THEN l[t] - 1 ELSE 0]

\* the inputs of the long runs: Control, the pointer positions, one wheel
\* delta, the normal and the zero-width rectangle, one image
IsCore(ev) ==
    /\ ev.key \in {"", "Control"}
    /\ ev.p \in {<<0, 0>>, <<400, 300>>, <<410, 295>>, <<800, 300>>}
    /\ ev.deltaY \in {0, -20}
    /\ ev.rect.height # 0
    /\ ev.pos \in {<<0, 0, 0>>, <<19, -16, 3>>}

\* history values: nothing recorded
NoAlone == [stage |-> "none"]
NoDrag == <<>>

\* ----------------------------------------------------------------- state
\* alone and drag are history variables: alone holds, after a reset and
\* through a focus that follows it at once, what a focus in place of that
\* reset would have left; drag holds the
\* target at the last mousedown and the pointer path since, as long as only
\* key, mouse and frame steps followed
VARIABLES variant, targetX, targetY, targetZ, ctrlPressed, isDragging,
          lastMouse, camera, focusTarget, mounted, listeners,
          frames, steps, core, last, alone, drag

vars == <<variant, targetX, targetY, targetZ, ctrlPressed, isDragging,
          lastMouse, camera, focusTarget, mounted, listeners,
          frames, steps, core, last, alone, drag>>

NavigationTarget == <<targetX, targetY, targetZ>>

Init ==
    /\ variant \in Variants
    /\ targetX = 0
    /\ targetY = 0
    /\ targetZ = DefaultZ * Unit
    /\ ctrlPressed = FALSE
    /\ isDragging = FALSE
    /\ lastMouse = <<0, 0>>
    /\ camera = <<0, 0, DefaultZ * Unit>>
    /\ focusTarget = NoFocus
    /\ mounted = TRUE
    /\ listeners = Setup(NoListeners)
    /\ frames = 0
    /\ steps = 0
    /\ core = TRUE
    /\ last = NoInput
    /\ alone = NoAlone
    /\ drag = NoDrag

\* ------------------------------------------------------ control surface
\* targetZ left as it is
reset_keepsZ == <<0, 0, targetZ>>

\* cameraControl.current.reset()
reset == <<0, 0, DefaultZ * Unit>>

\* the focus point added to the current target
focusOn_accumulate(pos) ==
    << Add(targetX, pos[1] * Unit), Add(targetY, pos[2] * Unit),
       Add(targetZ, (pos[3] + FocusOffset(variant)) * Unit) >>

\* part_000 cameraControl.current.focusOn(x, y, z);
\* App.js effect body for a non-null focusTarget
focusOn(pos) == <<pos[1] * Unit, pos[2] * Unit, (pos[3] + FocusOffset(variant)) * Unit>>

\* App.js useEffect(..., [focusTarget]): runs after a render in which the
\* focusTarget state changed, and writes the target only for a non-null value
\* a cleared focusTarget re-applies the focus it replaces
FocusEffect_stale(target, old, new) ==
    IF new # old THEN focusOn(IF new # NoFocus THEN new ELSE old) ELSE target

FocusEffect(target, old, new) ==
    IF new # old /\ new # NoFocus THEN focusOn(new) ELSE target

\* the target after a click on the image at pos: part_000 calls focusOn at
\* once; App.js stores a fresh position array in focusTarget, so the effect
\* always sees a changed dependency
FocusResult(pos) ==
    IF variant = "raycast" THEN focusOn(pos)
    ELSE FocusEffect(NavigationTarget, NoFocus, pos)

\* every handler is one event-loop task; steps counts them.  Runs of any
\* inputs are explored to MaxSteps events, runs of core inputs to DeepSteps.
Tick(ev) ==
    /\ steps < (IF core /\ IsCore(ev) THEN DeepSteps ELSE MaxSteps)
    /\ steps' = steps + 1
    /\ core' = (core /\ IsCore(ev))
    /\ last' = ev
    /\ alone' = IF ev.op = "reset"
                THEN [stage |-> "reset",
                      target |-> [pos \in ImagePositions |-> FocusResult(pos)],
                      ctrlPressed |-> ctrlPressed,
                      isDragging |-> isDragging,
                      lastMouse |-> lastMouse]
                ELSE IF ev.op = "focus" /\ alone.stage = "reset"
                THEN [alone EXCEPT !.stage = "both"]
                ELSE NoAlone
    /\ drag' = IF ev.op = "mousedown"
               THEN [target |-> NavigationTarget, path |-> <<ev.p>>]
               ELSE IF ev.op \in {"wheel", "reset", "focus", "mount"} THEN NoDrag
               ELSE IF ev.op = "mousemove" /\ isDragging /\ drag # NoDrag
               THEN [drag EXCEPT !.path = Append(@, ev.p)]
               ELSE drag

\* a window event reaches a handler only while that handler is registered
Registered(type) == listeners[type] > 0

\* ------------------------------------------------------------- raycaster
\* mouse = (((clientX - left) / width) * 2 - 1, -((clientY - top) / height) * 2 + 1)
\* in thousandths
NdcX(p, rect) ==
    LET q == Quot(p[1] - rect.left, rect.width)
    IN  IF IsFinite(q) THEN q * 2 - 1000 ELSE q

NdcY(p, rect) ==
    LET q == Quot(p[2] - rect.top, rect.height)
    IN  IF IsFinite(q) THEN 1000 - q * 2
        ELSE IF q = NaN THEN NaN
        ELSE IF q = PosInf THEN NegInf ELSE PosInf

\* raycaster.setFromCamera(mouse, camera).ray.direction for the perspective
\* camera of the canvas (fov 75, aspect of the canvas, looking down -z):
\* normalize(unproject(mouse.x, mouse.y, 0.5) - origin), in hundredths.
\* A non-finite mouse coordinate or camera position makes every component NaN.
RayDirection(mouse, cam, rect) ==
    IF \/ ~IsFinite(mouse[1]) \/ ~IsFinite(mouse[2])
       \/ \E i \in 1..3 : cam[i] = NaN
       \/ rect.width = 0 \/ rect.height = 0
    THEN <<NaN, NaN, NaN>>
    ELSE Normalize(<< RoundDiv(RoundDiv(mouse[1] * Quot(rect.width, rect.height), 1000)
                                   * TanHalfFov, 10000),
                      RoundDiv(mouse[2] * TanHalfFov, 10000),
                      -1000 >>)

\* point = ray.origin + ray.direction * 10; the ray starts at the camera
PointAtDistance(cam, dir) ==
    [i \in 1..3 |-> Add(cam[i], Mul(dir[i], RayDistance * Cent))]

\* direction = point.clone().sub(camera.position).normalize(), in hundredths
ZoomDirection(p, rect, cam) ==
    LET mouse == <<NdcX(p, rect), NdcY(p, rect)>>
        point == PointAtDistance(cam, RayDirection(mouse, cam, rect))
        diff  == [i \in 1..3 |-> Sub(point[i], cam[i])]
    IN  Normalize([i \in 1..3 |-> IF diff[i] = NaN THEN NaN ELSE diff[i] \div Cent])

\* the wheel direction not negated
ZoomFactor_positive(deltaY) == deltaY * ZoomGain

\* zoomFactor = -e.deltaY * 0.5, in tenths
ZoomFactor(deltaY) == (0 - deltaY) * ZoomGain

\* direction component * zoomFactor, in fine units
ZoomStep(d, deltaY) == Mul(d, ZoomFactor(deltaY) * (Cent \div 10))

\* ------------------------------------------------------------- handlers
\* the key not tested
handleKeyDown_anyKey(key) ==
    /\ Registered("keydown")
    /\ Tick([NoInput EXCEPT !.op = "keydown", !.key = key])
    /\ ctrlPressed' = TRUE
    /\ UNCHANGED <<variant, mounted, listeners, targetX, targetY, targetZ, isDragging, lastMouse,
                   camera, focusTarget, frames>>

handleKeyDown(key) ==
    /\ Registered("keydown")
    /\ Tick([NoInput EXCEPT !.op = "keydown", !.key = key])
    /\ ctrlPressed' = IF key = "Control" THEN TRUE ELSE ctrlPressed
    /\ UNCHANGED <<variant, mounted, listeners, targetX, targetY, targetZ, isDragging, lastMouse,
                   camera, focusTarget, frames>>

handleKeyUp(key) ==
    /\ Registered("keyup")
    /\ Tick([NoInput EXCEPT !.op = "keyup", !.key = key])
    /\ ctrlPressed' = IF key = "Control" THEN FALSE ELSE ctrlPressed
    /\ UNCHANGED <<variant, mounted, listeners, targetX, targetY, targetZ, isDragging, lastMouse,
                   camera, focusTarget, frames>>

\* part_000: zoom toward the cursor when Control is held, vertical pan otherwise
WheelRaycast(p, deltaY, rect) ==
    IF ctrlPressed
    THEN LET direction == ZoomDirection(p, rect, camera)
         IN  /\ targetX' = Add(targetX, ZoomStep(direction[1], deltaY))
             /\ targetY' = Add(targetY, ZoomStep(direction[2], deltaY))
             /\ targetZ' = Add(targetZ, ZoomStep(direction[3], deltaY))
    ELSE /\ targetY' = Add(targetY, deltaY * WheelPanGain * Cent)
         /\ UNCHANGED <<targetX, targetZ>>

\* the modifier test inverted
WheelSimple_swapped(deltaY) ==
    IF ~ctrlPressed
    THEN /\ targetZ' = Add(targetZ, deltaY * SimpleZoomGain * Cent)
         /\ UNCHANGED <<targetX, targetY>>
    ELSE /\ targetY' = Add(targetY, deltaY * WheelPanGain * Cent)
         /\ UNCHANGED <<targetX, targetZ>>

\* App.js: zoom along z when Control is held, vertical pan otherwise
WheelSimple(deltaY) ==
    IF ctrlPressed
    THEN /\ targetZ' = Add(targetZ, deltaY * SimpleZoomGain * Cent)
         /\ UNCHANGED <<targetX, targetY>>
    ELSE /\ targetY' = Add(targetY, deltaY * WheelPanGain * Cent)
         /\ UNCHANGED <<targetX, targetZ>>

handleWheel(p, deltaY, rect) ==
    /\ Registered("wheel")
    /\ Tick([NoInput EXCEPT !.op = "wheel", !.p = p, !.deltaY = deltaY, !.rect = rect])
    /\ IF variant = "raycast" THEN WheelRaycast(p, deltaY, rect)
                              ELSE WheelSimple(deltaY)
    /\ UNCHANGED <<variant, mounted, listeners, ctrlPressed, isDragging, lastMouse, camera,
                   focusTarget, frames>>

handleMouseDown(p) ==
    /\ Registered("mousedown")
    /\ Tick([NoInput EXCEPT !.op = "mousedown", !.p = p])
    /\ isDragging' = TRUE
    /\ lastMouse' = p
    /\ UNCHANGED <<variant, mounted, listeners, targetX, targetY, targetZ, ctrlPressed, camera,
                   focusTarget, frames>>

\* both axes panned with the same sign
handleMouseMove_sameSign(p) ==
    /\ Registered("mousemove")
    /\ Tick([NoInput EXCEPT !.op = "mousemove", !.p = p])
    /\ IF ~isDragging
       THEN UNCHANGED <<targetX, targetY, lastMouse>>
       ELSE LET dx == p[1] - lastMouse[1]
                dy == p[2] - lastMouse[2]
            IN  /\ targetX' = Add(targetX, dx * PanGain * Cent)
                /\ targetY' = Add(targetY, dy * PanGain * Cent)
                /\ lastMouse' = p
    /\ UNCHANGED <<variant, mounted, listeners, targetZ, ctrlPressed, isDragging, camera,
                   focusTarget, frames>>

\* the isDragging guard left out
handleMouseMove_noGuard(p) ==
    /\ Registered("mousemove")
    /\ Tick([NoInput EXCEPT !.op = "mousemove", !.p = p])
    /\ LET dx == p[1] - lastMouse[1]
           dy == p[2] - lastMouse[2]
       IN  /\ targetX' = Sub(targetX, dx * PanGain * Cent)
           /\ targetY' = Add(targetY, dy * PanGain * Cent)
           /\ lastMouse' = p
    /\ UNCHANGED <<variant, mounted, listeners, targetZ, ctrlPressed, isDragging, camera,
                   focusTarget, frames>>

\* the vertical pointer delta written to targetZ
handleMouseMove_panZ(p) ==
    /\ Registered("mousemove")
    /\ Tick([NoInput EXCEPT !.op = "mousemove", !.p = p])
    /\ IF ~isDragging
       THEN UNCHANGED <<targetX, targetZ, lastMouse>>
       ELSE LET dx == p[1] - lastMouse[1]
                dy == p[2] - lastMouse[2]
            IN  /\ targetX' = Sub(targetX, dx * PanGain * Cent)
                /\ targetZ' = Add(targetZ, dy * PanGain * Cent)
                /\ lastMouse' = p
    /\ UNCHANGED <<variant, mounted, listeners, targetY, ctrlPressed, isDragging, camera,
                   focusTarget, frames>>

\* lastMouse not updated
handleMouseMove_staleLast(p) ==
    /\ Registered("mousemove")
    /\ Tick([NoInput EXCEPT !.op = "mousemove", !.p = p])
    /\ IF ~isDragging
       THEN UNCHANGED <<targetX, targetY>>
       ELSE LET dx == p[1] - lastMouse[1]
                dy == p[2] - lastMouse[2]
            IN  /\ targetX' = Sub(targetX, dx * PanGain * Cent)
                /\ targetY' = Add(targetY, dy * PanGain * Cent)
    /\ UNCHANGED <<variant, mounted, listeners, targetZ, ctrlPressed, isDragging, lastMouse,
                   camera, focusTarget, frames>>

handleMouseMove(p) ==
    /\ Registered("mousemove")
    /\ Tick([NoInput EXCEPT !.op = "mousemove", !.p = p])
    /\ IF ~isDragging
       THEN UNCHANGED <<targetX, targetY, lastMouse>>
       ELSE LET dx == p[1] - lastMouse[1]
                dy == p[2] - lastMouse[2]
            IN  /\ targetX' = Sub(targetX, dx * PanGain * Cent)
                /\ targetY' = Add(targetY, dy * PanGain * Cent)
                /\ lastMouse' = p
    /\ UNCHANGED <<variant, mounted, listeners, targetZ, ctrlPressed, isDragging, camera,
                   focusTarget, frames>>

handleMouseUp ==
    /\ Registered("mouseup")
    /\ Tick([NoInput EXCEPT !.op = "mouseup"])
    /\ isDragging' = FALSE
    /\ UNCHANGED <<variant, mounted, listeners, targetX, targetY, targetZ, ctrlPressed, lastMouse,
                   camera, focusTarget, frames>>

\* ---------------------------------------------------- buttons and clicks
SetTarget(t) ==
    /\ targetX' = t[1]
    /\ targetY' = t[2]
    /\ targetZ' = t[3]

\* the reset also ends the drag
ResetView_endsDrag ==
    /\ Tick([NoInput EXCEPT !.op = "reset"])
    /\ IF variant = "raycast"
       THEN /\ SetTarget(reset)
            /\ UNCHANGED focusTarget
       ELSE /\ focusTarget' = NoFocus
            /\ SetTarget(FocusEffect(reset, focusTarget, NoFocus))
    /\ isDragging' = FALSE
    /\ UNCHANGED <<variant, mounted, listeners, ctrlPressed, lastMouse, camera, frames>>

\* the reset also puts the camera itself back
ResetView_snapsCamera ==
    /\ Tick([NoInput EXCEPT !.op = "reset"])
    /\ IF variant = "raycast"
       THEN /\ SetTarget(reset)
            /\ UNCHANGED focusTarget
       ELSE /\ focusTarget' = NoFocus
            /\ SetTarget(FocusEffect(reset, focusTarget, NoFocus))
    /\ camera' = reset
    /\ UNCHANGED <<variant, mounted, listeners, ctrlPressed, isDragging, lastMouse, frames>>

\* "Reset View" button
ResetView ==
    /\ Tick([NoInput EXCEPT !.op = "reset"])
    /\ IF variant = "raycast"
       THEN /\ SetTarget(reset)
            /\ UNCHANGED focusTarget
       ELSE /\ focusTarget' = NoFocus
            /\ SetTarget(FocusEffect(reset, focusTarget, NoFocus))
    /\ UNCHANGED <<variant, mounted, listeners, ctrlPressed, isDragging, lastMouse, camera, frames>>

\* click on an image at world position pos
ImageClick(pos) ==
    /\ mounted
    /\ Tick([NoInput EXCEPT !.op = "focus", !.pos = pos])
    /\ IF variant = "raycast"
       THEN /\ SetTarget(FocusResult(pos))
            /\ UNCHANGED focusTarget
       ELSE /\ focusTarget' = pos
            /\ SetTarget(FocusResult(pos))
    /\ UNCHANGED <<variant, mounted, listeners, ctrlPressed, isDragging, lastMouse, camera, frames>>

\* -------------------------------------------------- per-frame integration
\* d * 0.1
Damp(d) == IF d = NaN THEN NaN ELSE d \div 10

\* the camera coordinate not subtracted
Integrate_noSubtract(c, t) == Add(c, Damp(t))

\* camera.position.c += (target.c - camera.position.c) * 0.1
Integrate(c, t) == Add(c, Damp(Sub(t, c)))

useFrame ==
    /\ mounted
    /\ frames < MaxFrames
    /\ Tick([NoInput EXCEPT !.op = "frame"])
    /\ frames' = frames + 1
    /\ camera' = [i \in 1..3 |-> Integrate(camera[i], NavigationTarget[i])]
    /\ UNCHANGED <<variant, mounted, listeners, targetX, targetY, targetZ, ctrlPressed, isDragging,
                   lastMouse, focusTarget>>

\* -------------------------------------------------- effect setup/cleanup
\* cleanup of the listener effect (its refs and the handle in cameraControl
\* stay); the frame callback is unsubscribed with the component
Unmount ==
    /\ mounted
    /\ Tick([NoInput EXCEPT !.op = "unmount"])
    /\ mounted' = FALSE
    /\ listeners' = Cleanup(listeners)
    /\ UNCHANGED <<variant, targetX, targetY, targetZ, ctrlPressed, isDragging,
                   lastMouse, camera, focusTarget, frames>>

\* the effects run again: six listeners are added, and in App.js the
\* focusTarget effect runs for the focusTarget the App holds
Mount ==
    /\ ~mounted
    /\ Tick([NoInput EXCEPT !.op = "mount"])
    /\ mounted' = TRUE
    /\ listeners' = Setup(listeners)
    /\ IF variant = "simple"
       THEN SetTarget(FocusEffect(NavigationTarget, NoFocus, focusTarget))
       ELSE UNCHANGED <<targetX, targetY, targetZ>>
    /\ UNCHANGED <<variant, ctrlPressed, isDragging, lastMouse, camera,
                   focusTarget, frames>>

\* ------------------------------------------------------------------ spec
Next ==
    \/ \E key \in Keys : handleKeyDown(key)
    \/ \E key \in Keys : handleKeyUp(key)
    \/ \E p \in Pointers, deltaY \in DeltaYs, rect \in Rects : handleWheel(p, deltaY, rect)
    \/ \E p \in Pointers : handleMouseDown(p)
    \/ \E p \in Pointers : handleMouseMove(p)
    \/ handleMouseUp
    \/ ResetView
    \/ \E pos \in ImagePositions : ImageClick(pos)
    \/ useFrame
    \/ Unmount
    \/ Mount

Spec == Init /\ [][Next]_vars

\* ---------------------------------------------------------- model sanity
TypeOK ==
    /\ variant \in Variants
    /\ ctrlPressed \in BOOLEAN
    /\ isDragging \in BOOLEAN
    /\ mounted \in BOOLEAN
    /\ listeners \in [EventTypes -> 0..1]
    /\ frames \in 0..MaxFrames
    /\ steps \in 0..DeepSteps
    /\ core \in BOOLEAN
    /\ ~core => steps <= MaxSteps
    /\ \A i \in 1..3 : NavigationTarget[i] = NaN \/ NavigationTarget[i] % Cent = 0

\* the fixed point is fine enough: every frame step divides exactly
ExactFrames ==
    frames < MaxFrames =>
        \A i \in 1..3 :
            (camera[i] # NaN /\ NavigationTarget[i] # NaN)
                => (NavigationTarget[i] - camera[i]) % 10 = 0

\* ---------------------------------------------------------------- claims
Centre == <<400, 300>>
Home == <<0, 0, DefaultZ * Unit>>
Degenerate(rect) == rect.width = 0 \/ rect.height = 0

\* C1: after reset() the navigation target is exactly (0, 0, 10), whatever
\* the state before it (dragging, Control held, NaN target included).
C1_ResetYieldsHome ==
    last.op = "reset" => NavigationTarget = <<0, 0, 10 * Unit>>

\* reset during a drag, after the camera has already left the home position
C1_Witness ==
    /\ last.op = "reset"
    /\ isDragging
    /\ camera # Home
    /\ NavigationTarget = Home

\* C2: after a focus on (x, y, z) the navigation target is exactly
\* (x, y, z + focusOffset) with one constant offset of the program within
\* 5..10; nothing of the previous target is left in it.
C2_FocusOverwrites ==
    /\ FocusOffset(variant) \in 5..10
    /\ last.op = "focus" =>
          \E off \in {5, 10} :
              /\ off = (IF variant = "raycast" THEN 5 ELSE 10)
              /\ NavigationTarget = << last.pos[1] * Unit, last.pos[2] * Unit,
                                       (last.pos[3] + off) * Unit >>

\* a second focus, on (19, -16, 3), while the camera is on its way to the
\* first focus point (-57, 0, -2)
C2_Witness ==
    /\ last.op = "focus"
    /\ last.pos = <<19, -16, 3>>
    /\ camera[1] = (0 - 57) * (Unit \div 10)
    /\ targetX = 19 * Unit

\* C3 as stated: Control held, pointer at the canvas centre, camera at
\* (0, 0, 10), wheel deltaY = -20: target z changes by +10, x and y stay.
C3_Original ==
    [][ ( /\ last'.op = "wheel" /\ ctrlPressed /\ last'.deltaY = -20
          /\ last'.p = Centre /\ last'.rect = NormalRect /\ camera = Home )
        => ( /\ targetZ' = targetZ + 10 * Unit
             /\ targetX' = targetX /\ targetY' = targetY ) ]_vars

\* C3 amended: in the raycasting rig the same event has zoomFactor = 10 and
\* zoom direction (0, 0, -1), so target z changes by -10 (toward the cursor
\* point) and x, y stay; in the simple rig it changes z by -20 * 0.05 = -1.
C3_ZoomAtCentre ==
    [][ ( /\ last'.op = "wheel" /\ ctrlPressed /\ last'.deltaY = -20
          /\ last'.p = Centre /\ last'.rect = NormalRect /\ camera = Home )
        => ( /\ targetX' = targetX /\ targetY' = targetY
             /\ variant = "raycast" =>
                   /\ ZoomFactor(-20) = 100
                   /\ ZoomDirection(Centre, NormalRect, camera) = <<0, 0, -100>>
                   /\ targetZ' = Add(targetZ, (0 - 10) * Unit)
                   /\ targetZ # NaN => targetZ' < targetZ
             /\ variant = "simple" => targetZ' = Add(targetZ, 0 - Unit) ) ]_vars

\* the zoom of the scenario has just happened from the initial state
C3_Witness ==
    /\ variant = "raycast"
    /\ last.op = "wheel" /\ ctrlPressed /\ last.deltaY = -20
    /\ last.p = Centre /\ last.rect = NormalRect
    /\ camera = Home
    /\ NavigationTarget = <<0, 0, 0>>

\* C4: a wheel event with Control held and a zero-width or zero-height
\* bounding rectangle leaves the navigation target unchanged.
C4_DegenerateRectSkipsZoom ==
    [][ ( /\ variant = "raycast" /\ last'.op = "wheel" /\ ctrlPressed
          /\ Degenerate(last'.rect) )
        => UNCHANGED <<targetX, targetY, targetZ>> ]_vars

\* C5: every component of the navigation target is always a finite number.
C5_TargetFinite ==
    \A i \in 1..3 : IsFinite(NavigationTarget[i])

\* C6: a wheel event without Control adds deltaY * 0.06 to target y and
\* leaves x and z as they are, for every deltaY, pointer and rectangle;
\* deltaY = -100 moves a finite y by -6.
C6_WheelPan ==
    [][ ( last'.op = "wheel" /\ ~ctrlPressed )
        => ( /\ targetY' = Add(targetY, last'.deltaY * 6 * Cent)
             /\ (last'.deltaY = -100 /\ targetY # NaN) => targetY' = targetY - 6 * Unit
             /\ targetX' = targetX
             /\ targetZ' = targetZ ) ]_vars

\* the scenario: first event is a wheel of -100 without Control, on a
\* zero-width rectangle and off-centre pointer
C6_Witness ==
    /\ last.op = "wheel" /\ ~ctrlPressed /\ last.deltaY = -100
    /\ last.p = <<800, 300>> /\ Degenerate(last.rect)
    /\ steps = 1
    /\ NavigationTarget = <<0, (0 - 6) * Unit, DefaultZ * Unit>>

\* C7: a mousemove while dragging, (dx, dy) away from lastMouse, subtracts
\* dx * 0.09 from target x, adds dy * 0.09 to target y, leaves z and records
\* the pointer; (10, -5) moves finite x by -0.9 and y by -0.45.
C7_DragPan ==
    [][ ( last'.op = "mousemove" /\ isDragging )
        => LET dx == last'.p[1] - lastMouse[1]
               dy == last'.p[2] - lastMouse[2]
           IN  /\ targetX' = Sub(targetX, dx * 9 * Cent)
               /\ targetY' = Add(targetY, dy * 9 * Cent)
               /\ (dx = 10 /\ dy = -5 /\ targetX # NaN /\ targetY # NaN) =>
                     /\ targetX' = targetX - 90 * Cent
                     /\ targetY' = targetY - 45 * Cent
               /\ targetZ' = targetZ
               /\ lastMouse' = last'.p ]_vars

\* mousedown at (400, 300) then mousemove to (410, 295)
C7_Witness ==
    /\ last.op = "mousemove" /\ isDragging /\ steps = 2
    /\ lastMouse = <<410, 295>>
    /\ NavigationTarget = <<(0 - 90) * Cent, (0 - 45) * Cent, DefaultZ * Unit>>

\* C8: a mousemove while not dragging changes neither the navigation
\* target, lastMouse, isDragging nor the modifier state.
C8_MoveWithoutDrag ==
    [][ ( last'.op = "mousemove" /\ ~isDragging )
        => UNCHANGED <<targetX, targetY, targetZ, lastMouse, isDragging,
                       ctrlPressed>> ]_vars

\* a second mousemove without a drag, away from the recorded pointer
C8_Witness ==
    /\ last.op = "mousemove" /\ ~isDragging
    /\ last.p # lastMouse
    /\ steps >= 3 /\ frames = 0
    /\ NavigationTarget = Home /\ lastMouse = <<0, 0>>

\* C9: target z starts at 10 and no key, mouse or frame step changes it, so
\* it keeps the initial value along every run without wheel, reset, focus.
C9_PanKeepsZ ==
    /\ targetZ = 10 * Unit
    /\ [][ last'.op \in {"keydown", "keyup", "mousedown", "mousemove",
                         "mouseup", "frame"}
           => targetZ' = targetZ ]_vars

\* after exactly mousedown, frame and a panning mousemove
C9_Witness ==
    /\ last.op = "mousemove" /\ isDragging
    /\ steps = 3 /\ frames = 1
    /\ targetY # 0
    /\ targetZ = DefaultZ * Unit

\* C10: every frame step moves each camera coordinate by exactly a tenth of
\* its distance to the target (the distance is multiplied by 0.9), so the
\* new coordinate lies between the old one and the target, without
\* overshoot or change of side.
C10_FrameContracts ==
    [][ last'.op = "frame" =>
          \A i \in 1..3 :
              LET t == NavigationTarget[i]
                  c == camera[i]
                  n == camera'[i]
              IN  /\ t # NaN /\ c # NaN /\ n # NaN
                  /\ (t - c) % 10 = 0
                  /\ n - c = (t - c) \div 10
                  /\ (c <= t => (c <= n /\ n <= t))
                  /\ (c >= t => (c >= n /\ n >= t)) ]_vars

\* C11: reset() immediately followed by a focus on a point leaves the same
\* navigation target, modifier state and drag state as that focus alone
\* would have left from the state before the reset.
C11_ResetThenFocus ==
    alone.stage = "both" =>
        /\ NavigationTarget = alone.target[last.pos]
        /\ ctrlPressed = alone.ctrlPressed
        /\ isDragging = alone.isDragging
        /\ lastMouse = alone.lastMouse

\* reset then focus during a drag with Control held, after the pointer has
\* moved away from the mousedown position
C11_Witness ==
    /\ alone.stage = "both"
    /\ last.op = "focus"
    /\ isDragging /\ ctrlPressed
    /\ lastMouse = <<410, 295>>
    /\ steps = 5

\* C12: after the rig is torn down none of its six window listeners is
\* registered, so no window event is handled and none changes the target,
\* the modifier or the drag state (the target is then written only by the
\* Reset View button and by the effects of the next mount); over any
\* mount/unmount cycles exactly one set of listeners is registered while
\* mounted and none otherwise.
C12_NoLeakedListeners ==
    /\ [](\A t \in EventTypes : listeners[t] = (IF mounted THEN 1 ELSE 0))
    /\ [][ ~mounted =>
             /\ last'.op \notin EventTypes
             /\ UNCHANGED <<ctrlPressed, isDragging, lastMouse>>
             /\ last'.op \notin {"reset", "mount"} =>
                   UNCHANGED <<targetX, targetY, targetZ>> ]_vars

\* mounted again after two teardown cycles, with a handler run before
C12_Witness ==
    /\ last.op = "mount" /\ mounted
    /\ steps >= 5
    /\ ctrlPressed
    /\ \A t \in EventTypes : listeners[t] = 1

\* C13: only the per-frame step changes the camera position (no handler,
\* reset, focus, mount or unmount does), and the per-frame step changes
\* neither the navigation target, the modifier state, isDragging nor
\* lastMouse.
C13_CameraOnlyByFrame ==
    [][ /\ last'.op # "frame" => camera' = camera
        /\ last'.op = "frame" =>
              UNCHANGED <<targetX, targetY, targetZ, ctrlPressed, isDragging,
                          lastMouse>> ]_vars

\* a zoom handled while the camera is away from its start, after a frame
C13_Witness ==
    /\ last.op = "wheel" /\ ctrlPressed
    /\ frames >= 1
    /\ camera # Home
    /\ \A i \in 1..3 : camera[i] # NaN /\ NavigationTarget[i] # NaN

Abs(x) == IF x < 0 THEN 0 - x ELSE x

\* C14: reset and focus overwrite the navigation target at once, and the
\* frame step that follows moves the camera, on every axis, strictly closer
\* to that newest target (or leaves it on the target where it already is).
C14_LastWriteWins ==
    [][ /\ last'.op = "reset" => NavigationTarget' = Home
        /\ last'.op = "focus" =>
              NavigationTarget' = << last'.pos[1] * Unit, last'.pos[2] * Unit,
                                     (last'.pos[3] + FocusOffset(variant)) * Unit >>
        /\ (last.op \in {"reset", "focus"} /\ last'.op = "frame") =>
              \A i \in 1..3 :
                  LET t == NavigationTarget[i]
                      c == camera[i]
                      n == camera'[i]
                  IN  /\ t # NaN /\ c # NaN /\ n # NaN
                      /\ (c = t => n = t)
                      /\ (c # t => Abs(t - n) < Abs(t - c)) ]_vars

\* C15: in the raycasting rig a wheel event with Control held (and a proper
\* bounding rectangle) adds to the navigation target -deltaY * 0.5 times the
\* unit vector from the camera to the point 10 units down the ray through
\* the pointer: along it for a negative deltaY, against it for a positive
\* one.  The unit vector is the ray's own direction, taken here in
\* hundredths and within one hundredth of rounding.
C15_ZoomTowardCursor ==
    [][ ( /\ variant = "raycast" /\ last'.op = "wheel" /\ ctrlPressed
          /\ ~Degenerate(last'.rect) )
        =>
          LET k == Abs(last'.deltaY) * 5 * (Cent \div 10)
              sign == IF last'.deltaY < 0 THEN 1 ELSE -1
              ray == RayDirection(<<NdcX(last'.p, last'.rect), NdcY(last'.p, last'.rect)>>,
                                  camera, last'.rect)
          IN  /\ \A i \in 1..3 : ray[i] # NaN
              /\ LET len2 == ray[1] * ray[1] + ray[2] * ray[2] + ray[3] * ray[3]
                 IN  len2 >= 9800 /\ len2 <= 10200
              /\ \A i \in 1..3 :
                    \E u \in (ray[i] - 1)..(ray[i] + 1) :
                        NavigationTarget'[i] = Add(NavigationTarget[i], sign * k * u) ]_vars

\* C16: keydown / keyup of Control set the modifier to true / false and
\* change neither isDragging, lastMouse nor the navigation target; events
\* of any other key change nothing; mousedown / mouseup set isDragging to
\* true / false and never change the modifier.
C16_ModifierAndDrag ==
    [][ /\ (last'.op = "keydown" /\ last'.key = "Control") => ctrlPressed'
        /\ (last'.op = "keyup" /\ last'.key = "Control") => ~ctrlPressed'
        /\ last'.op \in {"keydown", "keyup"} =>
              UNCHANGED <<isDragging, lastMouse, targetX, targetY, targetZ>>
        /\ (last'.op \in {"keydown", "keyup"} /\ last'.key # "Control") =>
              UNCHANGED <<ctrlPressed, isDragging, lastMouse, targetX, targetY,
                          targetZ, camera, focusTarget, mounted, listeners>>
        /\ last'.op = "mousedown" => (isDragging' /\ ctrlPressed' = ctrlPressed)
        /\ last'.op = "mouseup" => (~isDragging' /\ ctrlPressed' = ctrlPressed) ]_vars

\* both at once: a drag started while Control was already held
C16_Witness ==
    /\ ctrlPressed /\ isDragging
    /\ last.op = "mousedown"

\* the other two mixed combinations, shown reachable as well
C16_ModifierOnly == ctrlPressed /\ ~isDragging /\ last.op = "mouseup"
C16_DragOnly == ~ctrlPressed /\ isDragging /\ last.op = "keyup" /\ last.key = "Control"

\* C17: from a mousedown at p0 on, as long as only key, mouse and frame
\* steps follow, the navigation target is the target at that mousedown
\* changed by (-(pn.x - p0.x) * 0.09, +(pn.y - p0.y) * 0.09, 0), where pn is
\* the last pointer position of the drag, whatever positions lay between;
\* moves after the mouseup are no part of the path and change nothing.
C17_DragPathIndependent ==
    drag # NoDrag =>
        LET p0 == drag.path[1]
            pn == drag.path[Len(drag.path)]
        IN  /\ lastMouse = pn
            /\ targetX = Sub(drag.target[1], (pn[1] - p0[1]) * 9 * Cent)
            /\ targetY = Add(drag.target[2], (pn[2] - p0[2]) * 9 * Cent)
            /\ targetZ = drag.target[3]

\* a drag from (400, 300) by way of (800, 300) to (410, 295), ended, and a
\* mousemove elsewhere after the mouseup
C17_Witness ==
    /\ drag # NoDrag
    /\ drag.path = << <<400, 300>>, <<800, 300>>, <<410, 295>> >>
    /\ ~isDragging
    /\ last.op = "mousemove" /\ last.p = <<800, 300>>
    /\ targetX = Sub(drag.target[1], 90 * Cent)
    /\ targetY = Sub(drag.target[2], 45 * Cent)

\* C18: initially the navigation target and the camera position are both
\* (0, 0, 10), and a frame step taken while the camera is on the target
\* leaves the camera where it is.
C18_IdleFixedPoint ==
    /\ NavigationTarget = camera
    /\ camera = <<0, 0, 10 * Unit>>
    /\ [][ (last'.op = "frame" /\ camera = NavigationTarget)
           => camera' = camera ]_vars

\* nothing but frames so far, and the camera has not moved
C18_Witness ==
    /\ last.op = "frame"
    /\ frames >= 2 /\ steps = frames
    /\ camera = Home /\ NavigationTarget = Home

\* C19: in the rig with the focusTarget prop, Reset View leaves the target
\* at (0, 0, 10) and focusTarget cleared; while focusTarget is cleared it
\* stays so until the next image click, and the focus effect, when it runs
\* again on a mount, leaves the target as it is.
C19_ResetClearsFocus ==
    [][ variant = "simple" =>
          /\ last'.op = "reset" =>
                (NavigationTarget' = <<0, 0, 10 * Unit>> /\ focusTarget' = NoFocus)
          /\ (focusTarget = NoFocus /\ last'.op # "focus") =>
                /\ focusTarget' = NoFocus
                /\ last'.op = "mount" => UNCHANGED <<targetX, targetY, targetZ>> ]_vars

\* image (19, -16, 3) focused, one frame toward it, Reset View, then the
\* effects run once more
C19_Witness ==
    /\ variant = "simple"
    /\ last.op = "mount" /\ steps = 5
    /\ camera[1] = 19 * (Unit \div 10)
    /\ focusTarget = NoFocus
    /\ NavigationTarget = Home

====
